---- MODULE Spec2Model ----
(***************************************************************************)
(* Model of libraries/AP_RangeFinder/AP_RangeFinder_uLanding.cpp: the      *)
(* uLanding radar altimeter backend.  update() calls get_reading(), which  *)
(* calls detect_version() until the firmware dialect is latched and then   *)
(* drains the UART, collecting frames into linebuf and averaging them.     *)
(*                                                                         *)
(* One update() call is a run of steps selected by pc:                     *)
(*   idle --UpdateBegin--> dv_loop --DetectStep*--> gr_loop | ret          *)
(*                         gr_loop --ReadStep*--> GetReadingExit --> ret   *)
(*                         ret --UpdateEnd--> idle                         *)
(* The environment is the sensor (Arrive: bytes reach the UART receive     *)
(* buffer) and the clock (Tick).                                           *)
(***************************************************************************)
EXTENDS Integers, Sequences, FiniteSets, TLC

\* ------------------------------------------------------------- constants

ULANDING_HDR == 254

ULANDING_HDR_V0 == 72

\* number of entries of linebuf: sizeof(linebuf)/sizeof(linebuf[0])
LinebufSize == 6

\* number of bytes get_reading wants for a Version 0 frame
V0FrameLen == 3

\* update(): staleness threshold in milliseconds
StaleMs == 200

\* ---------------------------------------------------------------- bounds

\* SpecDetect: longest byte sequence the sensor sends
MaxDetectLen == 5

\* Spec: largest number of frames the sensor sends after the bytes that let
\* the dialect be detected
MaxTimedFrames == 1

\* SpecV1: largest number of frames the sensor sends after them
MaxFrames == 2

\* SpecV0: largest number of 3-byte frames the sensor sends after them
MaxV0Frames == 4

\* the clock advances in steps of TickMs, at most MaxTicks times
MaxTicks == 2

TickMs == 150

\* ----------------------------------------------------------------- state

VARIABLES
    uart,             \* "null" | "port": what find_serial returned
    wire,             \* bytes the sensor has still to send
    rx,               \* UART receive buffer: bytes available()
    now,              \* AP_HAL::millis()
    pc,               \* position of the update() call in progress
    _version_known, _version, _header,
    linebuf, linebuf_len,
    dv_hdr_found, byte1, dv_count, dv_nbytes,   \* locals of detect_version
    sum, count, hdr_found, nbytes,              \* locals of get_reading
    distance_cm, status, last_reading_ms,       \* state.distance_cm, state.status
    dv_ret, gr_ret,   \* what detect_version / get_reading returned in this call
    dv_in, gr_in,     \* history: the bytes each drain loop was given (its available())
    frames,           \* history: every frame completed in this call, as linebuf held it
    reads,            \* history: read() calls made in this call
    entry,            \* history: the decoder's fields when this call began
    oob               \* history: linebuf was written outside 0..LinebufSize-1

vars == <<uart, wire, rx, now, pc, _version_known, _version, _header,
          linebuf, linebuf_len, dv_hdr_found, byte1, dv_count, dv_nbytes,
          sum, count, hdr_found, nbytes, distance_cm, status, last_reading_ms,
          dv_ret, gr_ret, dv_in, gr_in, frames, reads, entry, oob>>

decoder == <<_version_known, _version, _header, linebuf, linebuf_len>>

dvLocals == <<dv_hdr_found, byte1, dv_count, dv_nbytes>>

grLocals == <<sum, count, hdr_found, nbytes>>

sink == <<distance_cm, status, last_reading_ms>>

\* --------------------------------------------------------------- helpers

RECURSIVE SumSeq(_)
SumSeq(s) == IF s = <<>> THEN 0 ELSE Head(s) + SumSeq(Tail(s))

RECURSIVE Flatten(_)
Flatten(ss) == IF ss = <<>> THEN <<>> ELSE Head(ss) \o Flatten(Tail(ss))

SeqsUpTo(S, n) == UNION {[1..k -> S] : k \in 0..n}

Snapshot == [version_known |-> _version_known, version |-> _version,
             header |-> _header, linebuf |-> linebuf,
             linebuf_len |-> linebuf_len, distance_cm |-> distance_cm,
             candidate |-> [found |-> dv_hdr_found, byte1 |-> byte1,
                            count |-> dv_count],
             in_frame |-> hdr_found]

\* (c & 0x80) != 0
HighBit(c) == c >= 128

\* c & 0x7F
Low7(c) == c % 128

\* mutant of IsHdrCandidate: only the old header starts a candidate
IsHdrCandidateV0Only(c) == c = ULANDING_HDR_V0

\* detect_version(): "(c == ULANDING_HDR_V0) || (c == ULANDING_HDR)"
IsHdrCandidate(c) == (c = ULANDING_HDR_V0) \/ (c = ULANDING_HDR)

\* raw value of a Version 0 frame held in buffer b (b[i+1] is linebuf[i])
RawV0(b) == Low7(b[3]) * 128 + Low7(b[2])

\* checksum test and raw value of a Version 1 frame held in buffer b
ChecksumOk(b) == ((b[2] + b[3] + b[4] + b[5]) % 256) = b[6]

RawV1(b) == b[4] * 256 + b[3]

\* mutant of KeepCollecting: one byte more is collected than linebuf holds
KeepCollectingOffByOne(len) ==
    (len <= LinebufSize) \/ (_version = 0 /\ len < V0FrameLen)

\* "don't process linebuf until we've collected six bytes of data
\*  (or 3 bytes for Version 0 firmware)": the test that continues the loop
KeepCollecting(len) ==
    (len < LinebufSize) \/ (_version = 0 /\ len < V0FrameLen)

\* reading_cm = sum / count, narrowed to uint16_t (sum and count are exact
\* in float for the frame counts modelled, so the quotient truncates)
MeanCm(s, n) == s \div n

\* reading_cm *= 2.5f, narrowed to uint16_t
ScaleV0(r) == (r * 5) \div 2

Reading(s, n) == IF _version = 0 THEN ScaleV0(MeanCm(s, n)) ELSE MeanCm(s, n)

\* update_status() of the backend base class: the status follows from the
\* distance and the configured range, and is never NoData
MinDistanceCm == 20

MaxDistanceCm == 700

UpdateStatus(d) ==
    IF d > MaxDistanceCm THEN "OutOfRangeHigh"
    ELSE IF d < MinDistanceCm THEN "OutOfRangeLow"
    ELSE "Good"

\* AP_HAL::millis() - last_reading_ms; last_reading_ms is an earlier millis(),
\* so the unsigned difference does not wrap within MaxTicks ticks
Elapsed(t, last) == t - last

\* mutant of Stale: no delay before a failed reading counts as stale
StaleAtOnce(t, last) == Elapsed(t, last) >= 0

\* update(): "AP_HAL::millis() - last_reading_ms > 200"
Stale(t, last) == Elapsed(t, last) > StaleMs

\* ------------------------------------------------------------------ init

InitProgram ==
    /\ rx = <<>>
    /\ now = 0
    /\ pc = "idle"
    /\ _version_known = FALSE /\ _version = 0 /\ _header = 0
    /\ linebuf = [i \in 1..LinebufSize |-> 0] /\ linebuf_len = 0
    /\ dv_hdr_found = FALSE /\ byte1 = 0 /\ dv_count = 0 /\ dv_nbytes = 0
    /\ sum = 0 /\ count = 0 /\ hdr_found = FALSE /\ nbytes = 0
    /\ distance_cm = 0 /\ status = "NotConnected" /\ last_reading_ms = 0
    /\ dv_ret = "none" /\ gr_ret = "none"
    /\ dv_in = <<>> /\ gr_in = <<>> /\ frames = <<>> /\ reads = 0
    /\ entry = Snapshot
    /\ oob = FALSE

\* ---------------------------------------------------------- environment

\* the sensor: the next n bytes reach the UART receive buffer between two
\* update() calls
Arrive(n) ==
    /\ uart = "port"
    /\ pc = "idle"
    /\ n \in 1..Len(wire)
    /\ rx' = rx \o SubSeq(wire, 1, n)
    /\ wire' = SubSeq(wire, n + 1, Len(wire))
    /\ UNCHANGED <<uart, now, pc, decoder, dvLocals, grLocals, sink,
                   dv_ret, gr_ret, dv_in, gr_in, frames, reads, entry, oob>>

\* the sensor: the next n bytes reach the UART receive buffer while an
\* update() call is running (the UART is filled by its driver)
ArriveBusy(n) ==
    /\ uart = "port"
    /\ pc # "idle"
    /\ n \in 1..Len(wire)
    /\ rx' = rx \o SubSeq(wire, 1, n)
    /\ wire' = SubSeq(wire, n + 1, Len(wire))
    /\ UNCHANGED <<uart, now, pc, decoder, dvLocals, grLocals, sink,
                   dv_ret, gr_ret, dv_in, gr_in, frames, reads, entry, oob>>

\* the clock; millis() is sampled once per update(), after get_reading
Tick ==
    /\ pc = "idle"
    /\ now < MaxTicks * TickMs
    /\ now' = now + TickMs
    /\ UNCHANGED <<uart, wire, rx, pc, decoder, dvLocals, grLocals, sink,
                   dv_ret, gr_ret, dv_in, gr_in, frames, reads, entry, oob>>

\* uart->read(): the next byte; -1 (0xFF as uint8_t) from an empty buffer
ReadByte == IF rx = <<>> THEN 255 ELSE Head(rx)

AfterRead == IF rx = <<>> THEN rx ELSE Tail(rx)

\* ---------------------------------------------------------------- update

\* mutant of LoopRuns: the loop runs once more than bytes were available
LoopRunsOnceMore(n) == n >= 0

\* "while (nbytes-- > 0)": the test of both drain loops
LoopRuns(n) == n > 0

\* mutant of CountDown: the loop samples available() again on every pass
CountDownResampled(n) == Len(rx) - 1

\* "nbytes--" in the test of both drain loops
CountDown(n) == n - 1

\* largest value of "int16_t nbytes"
Int16Max == 32767

\* mutant of AlreadyKnown: the early return is missing
AlreadyKnownNever == FALSE

\* detect_version(): "if (_version_known) return true"
AlreadyKnown == _version_known

\* mutant of UartMissing: the port is never found missing
UartMissingNever == FALSE

\* "uart == nullptr": the test of get_reading() and of detect_version()
UartMissing == uart = "null"

\* detect_version(): its early returns, "true" | "false", or "scan" when it
\* goes on to read the port
DetectVersionEarlyReturn ==
    IF AlreadyKnown THEN "true"
    ELSE IF UartMissing THEN "false"
    ELSE "scan"

\* the candidate detect_version() is following: its locals hdr_found, byte1
\* and count
ScanState == [found |-> dv_hdr_found, byte1 |-> byte1, count |-> dv_count]

\* mutant of FreshCandidate: the locals keep what the last call left in them
CarriedCandidate == ScanState

\* detect_version(): "bool hdr_found = false; uint8_t byte1 = 0;
\* uint8_t count = 0"
FreshCandidate == [found |-> FALSE, byte1 |-> 0, count |-> 0]

\* get_reading(): "float sum = 0"
SumAtEntry == 0

\* mutant of HdrFoundAtEntry: the frame the last call was in is continued
HdrFoundCarried == hdr_found

\* get_reading(): "bool hdr_found = false"
HdrFoundAtEntry == FALSE

\* get_reading(): locals and available() before its drain loop
EnterReadLoop(buf) ==
    /\ sum' = SumAtEntry /\ count' = 0 /\ hdr_found' = HdrFoundAtEntry
    /\ nbytes' = Len(buf)
    /\ gr_in' = buf
    /\ pc' = "gr_loop"

\* update() -> get_reading() -> detect_version(), up to the first drain loop
UpdateBegin ==
    /\ pc = "idle"
    /\ entry' = Snapshot
    /\ frames' = <<>> /\ reads' = 0
    /\ IF UartMissing
       THEN /\ dv_ret' = "none" /\ gr_ret' = "false"
            /\ dv_in' = <<>> /\ gr_in' = <<>>
            /\ pc' = "ret"
            /\ UNCHANGED <<dvLocals, grLocals>>
       ELSE IF DetectVersionEarlyReturn = "true"
       THEN /\ dv_ret' = "true" /\ gr_ret' = "none"
            /\ dv_in' = <<>>
            /\ EnterReadLoop(rx)
            /\ UNCHANGED dvLocals
       ELSE IF DetectVersionEarlyReturn = "false"
       THEN /\ dv_ret' = "false" /\ gr_ret' = "false"
            /\ dv_in' = <<>> /\ gr_in' = <<>>
            /\ pc' = "ret"
            /\ UNCHANGED <<dvLocals, grLocals>>
       ELSE /\ dv_ret' = "none" /\ gr_ret' = "none"
            /\ dv_hdr_found' = FreshCandidate.found
            /\ byte1' = FreshCandidate.byte1
            /\ dv_count' = FreshCandidate.count
            /\ dv_nbytes' = Len(rx)
            /\ dv_in' = rx /\ gr_in' = <<>>
            /\ pc' = "dv_loop"
            /\ UNCHANGED grLocals
    /\ UNCHANGED <<uart, wire, rx, now, decoder, sink, oob>>

\* mutant of Resolve: version and header are stored but the dialect is not
\* marked as known
ResolveWithoutLatch(v, h) ==
    /\ _version' = v /\ _header' = h /\ _version_known' = FALSE
    /\ dv_ret' = "true"
    /\ dv_hdr_found' = FALSE /\ byte1' = 0 /\ dv_count' = 0 /\ dv_nbytes' = 0
    /\ EnterReadLoop(AfterRead)
    /\ UNCHANGED gr_ret

\* detect_version(): the dialect is latched and the call returns true;
\* get_reading() goes on to its own drain loop
Resolve(v, h) ==
    /\ _version' = v /\ _header' = h /\ _version_known' = TRUE
    /\ dv_ret' = "true"
    /\ dv_hdr_found' = FALSE /\ byte1' = 0 /\ dv_count' = 0 /\ dv_nbytes' = 0
    /\ EnterReadLoop(AfterRead)
    /\ UNCHANGED gr_ret

\* detect_version(): the loop goes on with these locals
KeepScanning(found, b1, cnt) ==
    /\ dv_hdr_found' = found /\ byte1' = b1 /\ dv_count' = cnt
    /\ dv_nbytes' = CountDown(dv_nbytes)
    /\ UNCHANGED <<_version, _header, _version_known, grLocals,
                   dv_ret, gr_ret, gr_in, pc>>

\* mutant of NeedMore: the recurring header is looked for one byte early
NeedMoreOffByOne(cnt) == cnt < 3

\* detect_version(): "if (++count < 4) continue", cnt the incremented count
NeedMore(cnt) == cnt < 4

\* detect_version(): the byte after ULANDING_HDR shows the header was data
\* of the old format: "(c & 0x80) || (c == ULANDING_HDR_V0)"
IsFalseHeader(c) == HighBit(c) \/ (c = ULANDING_HDR_V0)

\* detect_version(): the body of "while (nbytes-- > 0)" for the byte c, from
\* the candidate st; resolved tells that the call returns true with version
\* and header latched
ScanStep(st, c) ==
    LET goes(found, b1, cnt) ==
            [found |-> found, byte1 |-> b1, count |-> cnt,
             resolved |-> FALSE, version |-> 0, header |-> 0]
        done(v, h) ==
            [found |-> st.found, byte1 |-> st.byte1, count |-> st.count,
             resolved |-> TRUE, version |-> v, header |-> h]
    IN
    IF IsHdrCandidate(c) /\ ~st.found
    THEN goes(TRUE, c, (st.count + 1) % 256)
    ELSE IF st.found
    THEN IF st.byte1 = ULANDING_HDR_V0
         THEN IF NeedMore((st.count + 1) % 256)
              THEN goes(TRUE, st.byte1, (st.count + 1) % 256)
              ELSE IF c = st.byte1
                   THEN done(0, ULANDING_HDR_V0)
                   ELSE goes(FALSE, 0, 0)
         ELSE IF IsFalseHeader(c)
              THEN goes(FALSE, 0, 0)
              ELSE done(c, ULANDING_HDR)
    ELSE goes(st.found, st.byte1, st.count)

\* detect_version(): one iteration of "while (nbytes-- > 0)"
DetectStep ==
    /\ pc = "dv_loop"
    /\ LoopRuns(dv_nbytes)
    /\ rx' = AfterRead
    /\ reads' = reads + 1
    /\ LET r == ScanStep(ScanState, ReadByte) IN
       IF r.resolved
       THEN Resolve(r.version, r.header)
       ELSE KeepScanning(r.found, r.byte1, r.count)
    /\ UNCHANGED <<uart, wire, now, linebuf, linebuf_len, sink,
                   dv_in, frames, entry, oob>>

\* detect_version(): the whole drain loop over the bytes s, from the
\* candidate st, having read k bytes
RECURSIVE RunScan(_, _, _)
RunScan(st, s, k) ==
    IF s = <<>>
    THEN [resolved |-> FALSE, version |-> 0, header |-> 0, used |-> k]
    ELSE LET r == ScanStep(st, Head(s)) IN
         IF r.resolved
         THEN [resolved |-> TRUE, version |-> r.version,
               header |-> r.header, used |-> k + 1]
         ELSE RunScan([found |-> r.found, byte1 |-> r.byte1,
                       count |-> r.count], Tail(s), k + 1)

\* detect_version(): all available data seen, "return false";
\* get_reading() returns false in turn.  The locals keep their last values
\* until the next call initialises them.
DetectExit ==
    /\ pc = "dv_loop"
    /\ ~LoopRuns(dv_nbytes)
    /\ dv_ret' = "false" /\ gr_ret' = "false"
    /\ dv_nbytes' = 0
    /\ pc' = "ret"
    /\ UNCHANGED <<uart, wire, rx, now, decoder, grLocals, sink,
                   dv_hdr_found, byte1, dv_count,
                   dv_in, gr_in, frames, reads, entry, oob>>

\* linebuf[linebuf_len++] = c
Store(buf, len, c) == IF len < LinebufSize THEN [buf EXCEPT ![len + 1] = c] ELSE buf

\* get_reading(): whether the completed frame in b is added to sum
Counts(b) == IF _version = 0 THEN TRUE ELSE ChecksumOk(b)

\* get_reading(): what the completed frame in b adds to sum
Raw(b) == IF _version = 0 THEN RawV0(b) ELSE RawV1(b)

\* what one iteration of get_reading's loop reads and writes
LoopState == [buf |-> linebuf, len |-> linebuf_len, found |-> hdr_found,
              sum |-> sum, count |-> count, frames |-> frames, oob |-> oob]

\* mutant of StartsFrame: a byte equal to the header starts a frame even
\* inside a frame
StartsFrameAnywhere(found, c) == c = _header

\* get_reading(): "(c == _header) && !hdr_found", located header byte
StartsFrame(found, c) == (c = _header) /\ ~found

\* get_reading(): the body of "while (nbytes-- > 0)" for the byte c
FrameStep(st, c) ==
    LET starts == StartsFrame(st.found, c)
        len0   == IF starts THEN 0 ELSE st.len
        buf1   == Store(st.buf, len0, c)
        len1   == (len0 + 1) % 256
        wrote  == [st EXCEPT !.buf = buf1, !.oob = (@ \/ len0 >= LinebufSize)]
    IN
    IF ~(st.found \/ starts)
    THEN st
    ELSE IF KeepCollecting(len1)
    THEN [wrote EXCEPT !.len = len1, !.found = TRUE]
    ELSE LET done == [wrote EXCEPT !.len = 0, !.found = FALSE,
                                   !.frames = Append(@, buf1)]
         IN IF Counts(buf1)
            THEN [done EXCEPT !.sum = @ + Raw(buf1),
                              !.count = (@ + 1) % 65536]
            ELSE done

\* get_reading(): one iteration of "while (nbytes-- > 0)"
ReadStep ==
    /\ pc = "gr_loop"
    /\ LoopRuns(nbytes)
    /\ rx' = AfterRead
    /\ reads' = reads + 1
    /\ nbytes' = CountDown(nbytes)
    /\ LET st == FrameStep(LoopState, ReadByte) IN
       /\ linebuf' = st.buf /\ linebuf_len' = st.len /\ hdr_found' = st.found
       /\ sum' = st.sum /\ count' = st.count
       /\ frames' = st.frames /\ oob' = st.oob
    /\ UNCHANGED <<uart, wire, now, pc, _version_known, _version, _header,
                   dvLocals, sink, dv_ret, gr_ret, dv_in, gr_in, entry>>

\* get_reading(): the whole drain loop over the bytes s, from loop state st
RECURSIVE RunLoop(_, _)
RunLoop(st, s) ==
    IF s = <<>> THEN st ELSE RunLoop(FrameStep(st, Head(s)), Tail(s))

\* get_reading(): after the loop, "if (count == 0) return false", else the
\* mean goes to reading_cm (state.distance_cm) and the call returns true
GetReadingExit ==
    /\ pc = "gr_loop"
    /\ ~LoopRuns(nbytes)
    /\ IF count = 0
       THEN gr_ret' = "false" /\ UNCHANGED distance_cm
       ELSE gr_ret' = "true" /\ distance_cm' = Reading(sum, count)
    /\ pc' = "ret"
    /\ UNCHANGED <<uart, wire, rx, now, decoder, dvLocals, grLocals, status,
                   last_reading_ms, dv_ret, dv_in, gr_in, frames, reads, entry,
                   oob>>

\* update(): what follows get_reading(); the call is over and its history
\* is dropped.  The locals of get_reading() keep their last values until the
\* next call initialises them.
UpdateEnd ==
    /\ pc = "ret"
    /\ pc' = "idle"
    /\ IF gr_ret = "true"
       THEN /\ last_reading_ms' = now
            /\ status' = UpdateStatus(distance_cm)
       ELSE IF Stale(now, last_reading_ms)
       THEN /\ status' = "NoData"
            /\ UNCHANGED last_reading_ms
       ELSE UNCHANGED <<status, last_reading_ms>>
    /\ dv_ret' = "none" /\ gr_ret' = "none"
    /\ dv_in' = <<>> /\ gr_in' = <<>> /\ frames' = <<>> /\ reads' = 0
    /\ UNCHANGED <<uart, wire, rx, now, decoder, dvLocals, grLocals,
                   distance_cm, entry, oob>>

Program ==
    \/ UpdateBegin
    \/ DetectStep
    \/ DetectExit
    \/ ReadStep
    \/ GetReadingExit
    \/ UpdateEnd

Next ==
    \/ \E n \in 1..Len(wire) : Arrive(n)
    \/ \E n \in 1..Len(wire) : ArriveBusy(n)
    \/ Tick
    \/ Program

\* the clock stands still: update() reads it only after get_reading() has
\* returned, and nothing in the decoder depends on it
NextAsync ==
    \/ \E n \in 1..Len(wire) : Arrive(n)
    \/ \E n \in 1..Len(wire) : ArriveBusy(n)
    \/ Program

\* the clock stands still and bytes arrive only between calls: a drain loop
\* visits the bytes counted by its available(), so bytes arriving later in
\* the call are read exactly as if they had arrived right after it
NextPolled ==
    \/ \E n \in 1..Len(wire) : Arrive(n)
    \/ Program

\* ----------------------------------------------------------------- Spec
\* the port may be missing; the sensor sends the start of a Version 1
\* stream and at most MaxTimedFrames frames of TimedFrames; the clock runs

TimedFrames == {<<254, 1, 100, 0, 0, 101>>, <<254, 1, 2, 3, 4, 11>>}

Init ==
    /\ InitProgram
    /\ \/ uart = "null" /\ wire = <<>>
       \/ /\ uart = "port"
          /\ \E fs \in SeqsUpTo(TimedFrames, MaxTimedFrames) :
                 wire = <<254, 1>> \o Flatten(fs)

Spec == Init /\ [][Next]_vars

\* ----------------------------------------------------------- SpecDetect
\* the sensor sends any byte sequence over DetectBytes, at most
\* MaxDetectLen long

DetectBytes == {1, 72, 128, 254}

InitDetect ==
    /\ InitProgram
    /\ uart = "port"
    /\ wire \in SeqsUpTo(DetectBytes, MaxDetectLen)

SpecDetect == InitDetect /\ [][NextAsync]_vars

\* --------------------------------------------------------------- SpecV1
\* the sensor sends the start of a Version 1 stream (header and sub-version
\* 1 or 0), then at most MaxFrames frames of V1Frames

V1Preambles == {<<254, 1>>, <<254, 0>>}

V1Frames == {<<254, 1, 2, 3, 4, 10>>, <<254, 1, 2, 3, 4, 11>>,
             <<254, 1, 100, 0, 0, 101>>, <<254, 1, 254, 0, 2, 1>>,
             <<72, 10, 0, 72>>}

InitV1 ==
    /\ InitProgram
    /\ uart = "port"
    /\ \E p \in V1Preambles, fs \in SeqsUpTo(V1Frames, MaxFrames) :
           wire = p \o Flatten(fs)

SpecV1 == InitV1 /\ [][NextPolled]_vars

\* --------------------------------------------------------------- SpecV0
\* the sensor sends two Version 0 frames, which let the dialect be
\* detected, then at most MaxV0Frames frames of V0Frames

V0Frames == {<<72, 10, 0>>, <<72, 1, 0>>, <<72, 2, 0>>}

InitV0 ==
    /\ InitProgram
    /\ uart = "port"
    /\ \E fs \in SeqsUpTo(V0Frames, MaxV0Frames) :
           wire = <<72, 10, 0, 72, 10, 0>> \o Flatten(fs)

SpecV0 == InitV0 /\ [][NextPolled]_vars

\* ================================================================ claims

\* a detect_version() call on an unresolved decoder has returned; dv_in is
\* the byte sequence that was available to it
DetectReturned == dv_ret \in {"true", "false"} /\ ~entry.version_known

ResolvedLegacy ==
    dv_ret = "true" /\ _version_known /\ _version = 0 /\ _header = 72

ResolvedChecksummed(v) ==
    dv_ret = "true" /\ _version_known /\ _version = v /\ _header = 254

\* position of the first byte of s that is 0x48 or 0xFE; 0 if there is none
FirstCandidate(s) ==
    IF \E i \in 1..Len(s) : s[i] \in {72, 254}
    THEN CHOOSE i \in 1..Len(s) :
             /\ s[i] \in {72, 254}
             /\ \A j \in 1..(i - 1) : s[j] \notin {72, 254}
    ELSE 0

\* C1: once _version_known is true, no step of any later call changes
\* _version_known, _version or _header, whatever bytes arrive.
C1_DialectWriteOnce ==
    [][_version_known =>
          (_version_known' /\ _version' = _version /\ _header' = _header)]_vars

\* C1: a call on a decoder latched to the 0xFE header was given the priming
\* pattern of the other dialect and has drained it
C1_Witness ==
    /\ pc = "ret" /\ entry.version_known /\ entry.header = 254
    /\ gr_in = <<72, 10, 0, 72>>
    /\ _version_known /\ _header = 254 /\ _version = entry.version

\* C2 as claimed: whenever the bytes available to a detect_version() call on
\* an unresolved decoder hold 0x48 at some position i and at i+3, the call
\* resolves to the old dialect (_version 0, _header 0x48, returns true).
C2_AnyLegacyPrimingResolves ==
    (DetectReturned /\ \E i \in 1..Len(dv_in) :
         i + 3 <= Len(dv_in) /\ dv_in[i] = 72 /\ dv_in[i + 3] = 72)
    => ResolvedLegacy

\* C2 amended: when the first byte of the available sequence that is 0x48 or
\* 0xFE is a 0x48 at position i, and position i+3 holds 0x48 too, the call
\* resolves to the old dialect (_version 0, _header 0x48, returns true).
C2_FirstCandidateLegacyResolves ==
    (DetectReturned /\ LET i == FirstCandidate(dv_in) IN
         /\ i > 0 /\ i + 3 <= Len(dv_in)
         /\ dv_in[i] = 72 /\ dv_in[i + 3] = 72)
    => ResolvedLegacy

\* C2: the pattern came after a byte that is no candidate, with the two
\* bytes in between not 0x48, and the call resolved
C2_Witness ==
    DetectReturned /\ dv_in = <<1, 72, 128, 1, 72>> /\ ResolvedLegacy

\* C3 as claimed: whenever the bytes available to a detect_version() call on
\* an unresolved decoder hold 0xFE followed by v, v < 0x80 and v # 0x48, the
\* call resolves to the new dialect (_header 0xFE, returns true) with
\* _version = v.
C3_AnyHeaderVersionPairResolves ==
    DetectReturned =>
        \A i \in 1..(Len(dv_in) - 1) :
            (dv_in[i] = 254 /\ dv_in[i + 1] < 128 /\ dv_in[i + 1] # 72)
            => ResolvedChecksummed(dv_in[i + 1])

\* C3 amended: when the first byte of the available sequence that is 0x48 or
\* 0xFE is a 0xFE, and the byte after it is v, v < 0x80 and v # 0x48, the
\* call resolves to the new dialect (_header 0xFE, returns true) with
\* _version = v.
C3_FirstCandidateHeaderResolves ==
    (DetectReturned /\ LET i == FirstCandidate(dv_in) IN
         /\ i > 0 /\ i + 1 <= Len(dv_in)
         /\ dv_in[i] = 254 /\ dv_in[i + 1] < 128 /\ dv_in[i + 1] # 72)
    => ResolvedChecksummed(dv_in[FirstCandidate(dv_in) + 1])

\* C3: the pair came after a byte that is no candidate, and the call resolved
C3_Witness ==
    DetectReturned /\ dv_in = <<128, 254, 1, 72>> /\ ResolvedChecksummed(1)

\* ------------------------------------------------------------ C4 .. C8

\* checksum and raw value of a 6-byte frame b0..b5 (b[1]..b[6]) as the
\* wire format gives them
FrameValid(b) == (b[2] + b[3] + b[4] + b[5]) % 256 = b[6]

FrameRaw(b) == b[4] * 256 + b[3]

\* raw value of an old-format frame [0x48, lo, hi, ...]
LegacyRaw(b) == (b[3] % 128) * 128 + (b[2] % 128)

RECURSIVE SumOver(_, _)
SumOver(Val(_), fs) ==
    IF fs = <<>> THEN 0 ELSE Val(Head(fs)) + SumOver(Val, Tail(fs))

\* the step about to be taken reads the sixth byte of a frame
FrameCompleting ==
    pc = "gr_loop" /\ nbytes > 0 /\ hdr_found /\ linebuf_len = 5

\* C4 as claimed: with the old dialect latched, a get_reading() call whose
\* available bytes are exactly one frame [0x48, lo, hi] returns true with
\* reading_cm = ((hi & 0x7F)*128 + (lo & 0x7F)) * 2.5, narrowed.
C4_ThreeByteFrameYieldsReading ==
    (/\ pc = "ret"
     /\ entry.version_known /\ entry.version = 0 /\ entry.header = 72
     /\ Len(gr_in) = 3 /\ gr_in[1] = 72)
    => (gr_ret = "true" /\ distance_cm = (LegacyRaw(gr_in) * 5) \div 2)

\* C5 as claimed: with the 0xFE dialect latched, the step that completes a
\* 6-byte frame counts it if and only if (b1+b2+b3+b4) mod 256 = b5, and a
\* counted frame adds exactly b3*256 + b2 to sum.
C5_ChecksumDecidesCounting ==
    [][(_version_known /\ _header = 254 /\ FrameCompleting
            /\ nbytes' = nbytes - 1)
       => /\ linebuf'[1] = 254
          /\ count' = IF FrameValid(linebuf') THEN count + 1 ELSE count
          /\ sum' = IF FrameValid(linebuf')
                    THEN sum + FrameRaw(linebuf') ELSE sum]_vars

\* C5 holds of the decoder latched to 0xFE with a sub-version other than 0
C5_HoldsForSubVersionNotZero ==
    [][(_version_known /\ _header = 254 /\ _version # 0 /\ FrameCompleting
            /\ nbytes' = nbytes - 1)
       => /\ linebuf'[1] = 254
          /\ count' = IF FrameValid(linebuf') THEN count + 1 ELSE count
          /\ sum' = IF FrameValid(linebuf')
                    THEN sum + FrameRaw(linebuf') ELSE sum]_vars

\* the bytes s are back-to-back 6-byte frames, each starting with 0xFE
IsFrameBatch(s) ==
    /\ Len(s) > 0 /\ Len(s) % 6 = 0
    /\ \A k \in 0..((Len(s) \div 6) - 1) : s[6 * k + 1] = 254

\* the batch s without its checksum-failing frames
RECURSIVE KeepValid(_)
KeepValid(s) ==
    IF Len(s) < 6 THEN <<>>
    ELSE (IF FrameValid(SubSeq(s, 1, 6)) THEN SubSeq(s, 1, 6) ELSE <<>>)
         \o KeepValid(SubSeq(s, 7, Len(s)))

\* the loop state with which the get_reading() call in progress began
LoopStateAtEntry ==
    [buf |-> entry.linebuf, len |-> entry.linebuf_len, found |-> FALSE,
     sum |-> 0, count |-> 0, frames |-> <<>>, oob |-> FALSE]

\* C6 as claimed: with the 0xFE dialect latched, the result of a
\* get_reading() call on a batch of back-to-back 6-byte frames (success flag
\* and reading_cm) is the result of the same call on the batch without its
\* checksum-failing frames.
C6_FailingFramesChangeNothing ==
    (/\ pc = "ret" /\ entry.version_known /\ entry.header = 254
     /\ IsFrameBatch(gr_in))
    => LET r == RunLoop(LoopStateAtEntry, KeepValid(gr_in)) IN
       /\ (gr_ret = "true") <=> (r.count # 0)
       /\ distance_cm = IF r.count = 0 THEN entry.distance_cm
                        ELSE Reading(r.sum, r.count)

\* C6 holds of the decoder latched to 0xFE with a sub-version other than 0
C6_HoldsForSubVersionNotZero ==
    (entry.version # 0) => C6_FailingFramesChangeNothing

\* C6, second half: the step that completes a frame leaves the decoder in
\* header search with an empty buffer, whether the frame is counted or not
C6_CompletedFrameResetsBuffer ==
    [][(FrameCompleting /\ nbytes' = nbytes - 1)
       => (~hdr_found' /\ linebuf_len' = 0)]_vars

\* C7 as claimed: when get_reading() returns true with the 0xFE dialect
\* latched, reading_cm is the mean, narrowed to an integer and not scaled, of
\* b3*256 + b2 over the checksum-passing frames completed in this call.
C7_ReadingIsMeanOfThisCall ==
    (pc = "ret" /\ gr_ret = "true" /\ _header = 254)
    => LET vs == SelectSeq(frames, FrameValid) IN
       /\ vs # <<>>
       /\ distance_cm = SumOver(FrameRaw, vs) \div Len(vs)

\* C7 holds of the decoder latched to 0xFE with a sub-version other than 0
C7_HoldsForSubVersionNotZero ==
    (_version # 0) => C7_ReadingIsMeanOfThisCall

\* C8 as claimed: with the old dialect latched, reading_cm is
\* trunc((sum/count) * 2.5) over the raw values counted in this call, the
\* mean keeping its fraction until it is scaled: floor(5*sum / (2*count)).
C8_ScaledWithoutLosingFraction ==
    (pc = "ret" /\ gr_ret = "true" /\ _version = 0 /\ _header = 72)
    => distance_cm =
           (5 * SumOver(LegacyRaw, frames)) \div (2 * Len(frames))

\* what the code computes instead: the mean is narrowed before it is scaled
C8_MeanNarrowedBeforeScaling ==
    (pc = "ret" /\ gr_ret = "true" /\ _version = 0 /\ _header = 72)
    => /\ frames # <<>>
       /\ distance_cm =
              (5 * (SumOver(LegacyRaw, frames) \div Len(frames))) \div 2

\* ----------------------------------------------------------- C9 .. C10

\* the next step belongs to an update() call that finds no byte available:
\* the call is about to begin on an empty receive buffer, or it is running
\* and the one available() it sampled was 0
ZeroBytesCall ==
    \/ pc = "idle" /\ rx = <<>>
    \/ pc # "idle" /\ dv_in = <<>> /\ gr_in = <<>>

\* C9: no step of an update() call that finds zero bytes available changes
\* _version_known, _version, _header, linebuf, linebuf_len or
\* state.distance_cm, or calls read(), and get_reading() returns false.
C9_ZeroBytesChangeNothing ==
    [][ZeroBytesCall =>
          /\ UNCHANGED <<_version_known, _version, _header, linebuf,
                         linebuf_len, distance_cm>>
          /\ reads' = 0
          /\ gr_ret' # "true"
          /\ (pc' = "ret" => gr_ret' = "false")]_vars

\* C9: such a call has run to its end on a decoder that is latched and
\* holds a partial frame; nothing moved
C9_Witness ==
    /\ pc = "ret" /\ dv_in = <<>> /\ gr_in = <<>> /\ gr_ret = "false"
    /\ entry.version_known /\ entry.linebuf_len > 0
    /\ Snapshot = entry

\* C10: the step that ends update() sets last_reading_ms to the current
\* time and the status to what update_status() gives (never NoData) when
\* get_reading() succeeded; otherwise it leaves last_reading_ms alone and
\* turns the status into NoData only when more than 200 ms have passed
\* since last_reading_ms.
C10_NoDataOnlyAfterTimeout ==
    [][(pc = "ret" /\ pc' = "idle") =>
          IF gr_ret = "true"
          THEN /\ last_reading_ms' = now
               /\ status' = UpdateStatus(distance_cm)
               /\ status' # "NoData"
          ELSE /\ last_reading_ms' = last_reading_ms
               /\ status' \in {status, "NoData"}
               /\ (status' = "NoData" /\ status # "NoData")
                      => now - last_reading_ms > 200
               /\ (now - last_reading_ms > 200) => status' = "NoData"]_vars

\* C10: the status is NoData and the running update() has a valid reading,
\* so its last step recovers the status
C10_Witness ==
    pc = "ret" /\ gr_ret = "true" /\ status = "NoData" /\ now > 200

\* ---------------------------------------------------------- C11 .. C13

\* C11: when get_reading() calls detect_version() with _version_known
\* already true, detect_version returns true at once: it samples no
\* available() (its nbytes and the bytes it would scan stay untouched), calls
\* no read() (the receive buffer keeps every byte) and changes no state.
C11_DetectIdempotentOnceResolved ==
    [][(pc = "idle" /\ pc' # "idle" /\ uart = "port" /\ _version_known)
       => /\ dv_ret' = "true"
          /\ dv_in' = <<>> /\ reads' = 0 /\ rx' = rx
          /\ UNCHANGED <<_version_known, _version, _header, linebuf,
                         linebuf_len, dv_hdr_found, byte1, dv_count,
                         dv_nbytes, distance_cm, status, last_reading_ms>>]_vars

\* C11: detect_version() has returned true on a latched decoder while bytes
\* were waiting, and get_reading() is about to drain all of them
C11_Witness ==
    /\ pc = "gr_loop" /\ entry.version_known /\ dv_ret = "true"
    /\ reads = 0 /\ rx # <<>> /\ gr_in = rx /\ nbytes = Len(rx)
    /\ Snapshot = entry

\* C12: whenever get_reading() has returned true, _version_known is true;
\* and in a call that began with the dialect unresolved, as long as
\* detect_version() has not returned true, linebuf, linebuf_len and
\* reading_cm are what they were at entry, and when detect_version() returns
\* false get_reading() returns false.
C12_ReadingOnlyWhenResolved ==
    /\ (gr_ret = "true") => _version_known
    /\ (pc # "idle" /\ ~entry.version_known /\ dv_ret # "true")
       => /\ linebuf = entry.linebuf
          /\ linebuf_len = entry.linebuf_len
          /\ distance_cm = entry.distance_cm
          /\ gr_ret # "true"
    /\ (pc = "ret" /\ dv_ret = "false") => gr_ret = "false"

\* C12: a call on an unresolved decoder has read the bytes it was given,
\* found no dialect in them and returned false
C12_Witness ==
    /\ pc = "ret" /\ ~entry.version_known /\ ~_version_known
    /\ dv_ret = "false" /\ gr_ret = "false"
    /\ dv_in # <<>> /\ reads = Len(dv_in)

\* C13: with no port (uart null), detect_version() would return false at
\* its own test in every reachable state, and the step that begins a call is
\* the step in which get_reading() returns false: nothing is read and
\* _version_known, _version, _header, linebuf, linebuf_len and reading_cm
\* keep their values.
C13_NoPortNoMutation ==
    [][(uart = "null")
       => /\ DetectVersionEarlyReturn = "false"
          /\ (pc = "idle" /\ pc' # "idle")
             => /\ pc' = "ret" /\ gr_ret' = "false" /\ dv_ret' # "true"
                /\ reads' = 0 /\ rx' = rx
          /\ UNCHANGED <<_version_known, _version, _header, linebuf,
                         linebuf_len, distance_cm>>]_vars

\* C13: a call without a port has returned false after an earlier one ran
\* into the timeout; the decoder is as it was
C13_Witness ==
    /\ uart = "null" /\ pc = "ret" /\ gr_ret = "false" /\ reads = 0
    /\ status = "NoData" /\ Snapshot = entry

\* ---------------------------------------------------------- C14 .. C16

\* get_reading() decodes by the old format: its tests for the frame length,
\* the frame value and the 2.5 scaling all read "_version == 0"
LegacyDecoding ==
    /\ ~KeepCollecting(LinebufSize)
    /\ \A b \in {<<254, 1, 2, 3, 4, 11>>} :
           Counts(b) /\ Raw(b) = RawV0(b) /\ Reading(2, 1) = ScaleV0(2)

\* get_reading() decodes 6-byte frames with checksum and without scaling
ChecksummedDecoding ==
    /\ ~KeepCollecting(LinebufSize)
    /\ \A b \in {<<254, 1, 2, 3, 4, 10>>, <<254, 1, 2, 3, 4, 11>>} :
           (Counts(b) <=> ChecksumOk(b)) /\ Raw(b) = RawV1(b)
    /\ Reading(2, 1) = 2

\* C14 as claimed: in every state with _version_known true, either _header
\* is 0x48, _version is 0 and frames are decoded by the old format with the
\* 2.5 scaling, or _header is 0xFE, _version is a sub-version below 0x80 and
\* not 0x48, and frames are decoded as checksummed frames without scaling.
C14_HeaderAndDialectAgree ==
    _version_known =>
        \/ _header = 72 /\ _version = 0 /\ LegacyDecoding
        \/ /\ _header = 254 /\ _version < 128 /\ _version # 72
           /\ ChecksummedDecoding

\* C14 holds of every latched state but the one with _header 0xFE and
\* sub-version 0
C14_HoldsForSubVersionNotZero ==
    (_version_known /\ ~(_header = 254 /\ _version = 0))
    => C14_HeaderAndDialectAgree

\* the bytes s hold a first candidate 0x48 at position i whose 4th byte is
\* 0xFE, followed by a byte that can be a sub-version
DiscardedAtHeader(s, i) ==
    /\ i > 0 /\ i = FirstCandidate(s) /\ i + 4 <= Len(s)
    /\ s[i] = 72 /\ s[i + 3] = 254
    /\ s[i + 4] < 128 /\ s[i + 4] # 72

\* C15 as claimed: when a detect_version() call on an unresolved decoder
\* discards a 0x48 candidate because the 4th collected byte is 0xFE, that
\* byte becomes the new candidate: the bytes [0x48, a, b, 0xFE, v] with
\* v < 0x80 and v # 0x48 resolve to the 0xFE dialect with _version = v.
C15_ScanResumesAtFourthByte ==
    DetectReturned =>
        \A i \in 1..Len(dv_in) :
            DiscardedAtHeader(dv_in, i) => ResolvedChecksummed(dv_in[i + 4])

\* what the code does instead: the 4th byte is consumed by the discarded
\* candidate, and [0x48, a, b, 0xFE, v] ends the call unresolved
C15_ScanResumesPastFourthByte ==
    (DetectReturned /\ Len(dv_in) = 5 /\ DiscardedAtHeader(dv_in, 1))
    => (dv_ret = "false" /\ ~_version_known /\ reads = 5)

\* number of bytes the drain loop of get_reading() has read so far
Visited == Len(gr_in) - nbytes

\* C16: a step of get_reading()'s loop taken inside a frame appends the byte
\* it reads to linebuf, whatever its value: linebuf_len grows by one, or the
\* frame is complete and then it is the header byte followed by the next
\* five bytes of the stream; only a step taken in header search puts a byte
\* equal to _header at linebuf[0].
C16_NoRestartInsideFrame ==
    [][(pc = "gr_loop" /\ nbytes' = nbytes - 1)
       => LET c == gr_in[Visited + 1] IN
          IF hdr_found
          THEN /\ linebuf'[linebuf_len + 1] = c
               /\ \A i \in 1..linebuf_len : linebuf'[i] = linebuf[i]
               /\ IF hdr_found'
                  THEN linebuf_len' = linebuf_len + 1
                  ELSE /\ linebuf_len' = 0
                       /\ frames' = Append(frames, linebuf')
                       /\ linebuf'[1] = _header
                       /\ linebuf' = SubSeq(gr_in, Visited' - 5, Visited')
          ELSE IF c = _header
          THEN hdr_found' /\ linebuf_len' = 1 /\ linebuf'[1] = c
          ELSE UNCHANGED <<hdr_found, linebuf, linebuf_len>>]_vars

\* C16: a frame was completed that holds the header value 0xFE again after
\* its first byte, with sub-version 1 latched
C16_Witness ==
    /\ pc = "gr_loop" /\ _header = 254 /\ _version = 1 /\ frames # <<>>
    /\ \E k \in 1..Len(frames) :
           frames[k][1] = 254 /\ \E i \in 2..6 : frames[k][i] = 254

\* ---------------------------------------------------------- C17 .. C20

\* what is left of the running call: a bound on the steps it still takes
StepsLeft ==
    CASE pc = "dv_loop" -> 3 + dv_nbytes + Int16Max + 1
      [] pc = "gr_loop" -> 2 + nbytes
      [] pc = "ret"     -> 1
      [] OTHER          -> 0

\* C17: in every call each drain loop makes at most as many read() calls as
\* the available() it sampled before the loop: the reads made and the passes
\* left add up to that count, the passes left never exceed the bytes in the
\* receive buffer (no read() from an empty buffer), the bytes still to be
\* visited are those that were there when the loop began (bytes arriving
\* later are behind them and not visited), and every step of the call
\* brings its end nearer.
C17_DrainBoundedByAvailable ==
    [][/\ (pc = "dv_loop")
          => /\ 0 <= dv_nbytes /\ dv_nbytes <= Len(rx)
             /\ reads + dv_nbytes = Len(dv_in)
             /\ SubSeq(rx, 1, dv_nbytes)
                    = SubSeq(dv_in, reads + 1, Len(dv_in))
       /\ (pc = "gr_loop")
          => /\ 0 <= nbytes /\ nbytes <= Len(rx)
             /\ 0 <= Visited
             /\ reads - Visited \in 0..Len(dv_in)
             /\ SubSeq(rx, 1, nbytes)
                    = SubSeq(gr_in, Visited + 1, Len(gr_in))
       /\ (pc = "ret") => reads <= Len(dv_in) + Len(gr_in)
       /\ (reads' = reads + 1) => (rx # <<>> /\ rx' = Tail(rx))
       /\ (pc # "idle" /\ wire' = wire) => StepsLeft' < StepsLeft]_vars

\* C17: a call has resolved the dialect and drained what was available to
\* each loop, and bytes that arrived while it ran are still in the buffer
C17_Witness ==
    /\ pc = "ret" /\ dv_ret = "true" /\ gr_ret = "false"
    /\ gr_in # <<>> /\ reads >= 3 /\ rx # <<>>

\* C18: the outcome of a detect_version() call on an unresolved decoder is
\* the outcome of scanning the bytes available to that call from a candidate
\* state of (false, 0, 0), whatever candidate the call before had left: it
\* returns true exactly if that scan resolves, with the version and header
\* that scan finds, and otherwise reads every byte and leaves the dialect
\* unresolved.  In particular 0x48 alone does not confirm a 0x48 candidate
\* that the call before had followed for three bytes.
C18_DetectStartsFromScratch ==
    DetectReturned =>
        LET r == RunScan([found |-> FALSE, byte1 |-> 0, count |-> 0],
                         dv_in, 0)
        IN /\ (dv_ret = "true") <=> r.resolved
           /\ r.resolved => (_version_known /\ _version = r.version
                                 /\ _header = r.header)
           /\ ~r.resolved => (~_version_known /\ reads = Len(dv_in))
           /\ (dv_in = <<72>>) => (dv_ret = "false" /\ ~_version_known)

\* C18: the call before ended on a 0x48 candidate three bytes old, this call
\* was given 0x48 alone and has returned false
C18_Witness ==
    /\ pc = "ret" /\ DetectReturned
    /\ entry.candidate = [found |-> TRUE, byte1 |-> 72, count |-> 3]
    /\ dv_in = <<72>> /\ dv_ret = "false" /\ ~_version_known

\* C19 as claimed: when the call before ended inside a frame of which
\* linebuf_len bytes were stored, the rest of that frame is skipped by this
\* call and the split frame adds to no reading: every frame this call counts
\* begins after the bytes that were left of the split frame.
C19_SplitFrameNeverCounted ==
    [][(/\ pc = "gr_loop" /\ entry.in_frame /\ entry.linebuf_len > 0
        /\ count' = count + 1)
       => Visited' - 5 > LinebufSize - entry.linebuf_len]_vars

\* C19 amended: every get_reading() call starts in header search, also
\* when the call before ended inside a frame; until it has read a byte equal
\* to _header (which may be a byte left of the split frame) it leaves
\* linebuf and linebuf_len as they were and counts nothing; and every frame
\* it completes is six consecutive bytes of its own input beginning with
\* _header, so no byte stored by an earlier call adds to a reading.
C19_PartialFrameNotContinued ==
    [][/\ (pc # "gr_loop" /\ pc' = "gr_loop") => ~hdr_found'
       /\ (pc = "gr_loop" /\ \A i \in 1..Visited : gr_in[i] # _header)
          => /\ ~hdr_found /\ frames = <<>> /\ count = 0
             /\ linebuf = entry.linebuf /\ linebuf_len = entry.linebuf_len
       /\ (pc = "gr_loop" /\ Len(frames') = Len(frames) + 1)
          => /\ Visited' >= LinebufSize
             /\ linebuf' = SubSeq(gr_in, Visited' - 5, Visited')
             /\ linebuf'[1] = _header]_vars

\* C19: the call before stored two bytes of a frame; this call skipped the
\* four bytes left of it and counted the frame after it
C19_Witness ==
    /\ pc = "ret" /\ _version = 1
    /\ entry.in_frame /\ entry.linebuf_len = 2
    /\ gr_in = <<2, 3, 4, 10, 254, 1, 100, 0, 0, 101>>
    /\ gr_ret = "true" /\ distance_cm = 100

\* C20: linebuf is never written outside its six entries: linebuf_len stays
\* in 0..5 between steps, a byte is stored only inside a frame and then at
\* an index in 0..5, and a frame is processed by the step that stores at
\* index 5, when linebuf_len bytes have been written since the frame began:
\* the indexes read (1..2 for the old format, 1..5 for checksummed frames)
\* are below that count.
C20_LinebufWithinBounds ==
    [][/\ ~oob /\ ~oob'
       /\ linebuf_len \in 0..(LinebufSize - 1)
       /\ (pc = "gr_loop" /\ hdr_found)
          => /\ linebuf_len \in 1..(LinebufSize - 1)
             /\ linebuf_len <= Visited
             /\ \A i \in 1..linebuf_len :
                    linebuf[i] = gr_in[Visited - linebuf_len + i]
       /\ (pc = "gr_loop" /\ linebuf' # linebuf)
          => (hdr_found \/ gr_in[Visited + 1] = _header)
       /\ (pc = "gr_loop" /\ Len(frames') = Len(frames) + 1)
          => /\ hdr_found /\ linebuf_len = LinebufSize - 1
             /\ linebuf_len + 1 > (IF _version = 0 THEN 2 ELSE 5)]_vars

\* C20: a call that began with three bytes of a split frame in linebuf has
\* found a header and is about to store at index 5
C20_Witness ==
    /\ pc = "gr_loop" /\ nbytes > 0 /\ hdr_found /\ linebuf_len = 5
    /\ entry.linebuf_len = 3 /\ ~oob

====
